---- MODULE Spec2Model ----
(***************************************************************************)
(* Dependency diff engine of release-tool (cmd/release-tool/util.go).      *)
(*                                                                         *)
(* Strings are sequences of one-character strings, so that the code's     *)
(* string operations (strings.Fields, strings.HasSuffix, slicing,          *)
(* fmt.Sprintf) are computed and not assumed.  The empty string is <<>>.   *)
(***************************************************************************)
EXTENDS Integers, Sequences, FiniteSets, TLC

VARIABLES
    pc,        \* position of main / getUpdatedDeps
    previous,  \* []dependency of the previous revision (renamed in place)
    deps,      \* []dependency of the current revision
    previous0, \* the previous slice as parsed, before renameDependencies
    renames,   \* release.RenameDeps: shortname -> projectRename
    ignored,   \* release.IgnoreDeps
    cache,     \* the Cache handed to getUpdatedDeps
    pm,        \* toDepMap(previous)
    cm,        \* toDepMap(deps)
    todo,      \* keys of cm the range loop has not visited yet
    updated,   \* the slice getUpdatedDeps builds
    ret,       \* what getUpdatedDeps or parseGoDependencies returned: [deps, err]
    calls,     \* log of the calls made (resolveGitURL, getSha, fileFromRev, parsers)
    manifests, \* the manifest files "git show <rev>:<file>" finds at the revision
    input,     \* the argument of the function under study (a token, a file's content)
    results    \* what the successive calls on input returned, in order

vars == <<pc, previous, deps, previous0, renames, ignored, cache, pm, cm, todo,
          updated, ret, calls, manifests, input, results>>

----------------------------------------------------------------------------
(* Bounds of the model *)

\* most dependencies the two revisions have together
MaxDeps == 3

\* most resolution calls made one after the other on one cache
MaxCalls == 2

\* most lines a manifest file has
MaxLines == 2

\* most dash-separated parts a version token is made of
MaxParts == 4

----------------------------------------------------------------------------
(* Strings *)

\* unicode.IsSpace: tab, line feed, vertical tab, form feed, carriage return,
\* space, U+0085, U+00A0 and the space separators of Unicode (a character
\* the module's character set lacks is written by its code point, "U+2000")
Whitespace ==
    {"\t", "\n", "", "\f", "\r", " ",
     "", " ", " ", "U+2000", "U+2001", "U+2002", "U+2003", "U+2004", "U+2005",
     "U+2006", "U+2007", "U+2008", "U+2009", "U+200A", "U+2028", "U+2029", "U+202F", "U+205F", "U+3000"}

RECURSIVE FieldsAcc(_, _, _, _, _)
FieldsAcc(s, i, cur, acc, seps) ==
    IF i > Len(s)
    THEN IF cur = <<>> THEN acc ELSE Append(acc, cur)
    ELSE IF s[i] \in seps
         THEN FieldsAcc(s, i + 1, <<>>, IF cur = <<>> THEN acc ELSE Append(acc, cur), seps)
         ELSE FieldsAcc(s, i + 1, Append(cur, s[i]), acc, seps)

\* strings.Fields: the maximal runs of non-space characters
Fields(s) == FieldsAcc(s, 1, <<>>, <<>>, Whitespace)

\* strings.FieldsFunc(s, func(c rune) bool { return c == '-' })
DashFields(s) == FieldsAcc(s, 1, <<>>, <<>>, {"-"})

\* strings.Index: the offset (from 0) of the first occurrence, -1 if none
Index(s, sub) ==
    LET at == {i \in 1..(Len(s) - Len(sub) + 1) : SubSeq(s, i, i + Len(sub) - 1) = sub}
    IN  IF at = {} THEN -1 ELSE (CHOOSE i \in at : \A j \in at : i <= j) - 1

\* strings.TrimSpace
TrimSpace(s) ==
    LET solid == {i \in DOMAIN s : s[i] \notin Whitespace}
    IN  IF solid = {}
        THEN <<>>
        ELSE SubSeq(s, CHOOSE i \in solid : \A j \in solid : i <= j,
                       CHOOSE i \in solid : \A j \in solid : i >= j)

\* strings.HasPrefix
HasPrefix(s, prefix) ==
    /\ Len(s) >= Len(prefix)
    /\ SubSeq(s, 1, Len(prefix)) = prefix

\* the characters of the model in the order of their code points
CodeOrder ==
    <<"\t", "\n", "", "\f", "\r", " ", "!", "\"", "#", "$", "%", "&",
      "'", "(", ")", "*", "+", ",", "-", ".", "/", "0", "1", "2",
      "3", "4", "5", "6", "7", "8", "9", ":", ";", "<", "=", ">",
      "?", "@", "A", "B", "C", "D", "E", "F", "G", "H", "I", "J",
      "K", "L", "M", "N", "O", "P", "Q", "R", "S", "T", "U", "V",
      "W", "X", "Y", "Z", "[", "\\", "]", "^", "_", "U+0060", "a", "b",
      "c", "d", "e", "f", "g", "h", "i", "j", "k", "l", "m", "n",
      "o", "p", "q", "r", "s", "t", "u", "v", "w", "x", "y", "z",
      "{", "|", "}", "~", "", " ", " ", "U+2000", "U+2001", "U+2002", "U+2003", "U+2004",
      "U+2005", "U+2006", "U+2007", "U+2008", "U+2009", "U+200A", "U+2028", "U+2029", "U+202F", "U+205F", "U+3000">>

Code(c) == CHOOSE i \in DOMAIN CodeOrder : CodeOrder[i] = c

\* a < b on Go strings: the first differing character decides, a proper
\* prefix is smaller
Less(a, b) ==
    \E k \in 1..Len(b) :
        /\ k <= Len(a) + 1
        /\ SubSeq(a, 1, k - 1) = SubSeq(b, 1, k - 1)
        /\ k = Len(a) + 1 \/ Code(a[k]) < Code(b[k])

\* strings.HasSuffix
HasSuffix(s, suffix) ==
    /\ Len(s) >= Len(suffix)
    /\ SubSeq(s, Len(s) - Len(suffix) + 1, Len(s)) = suffix

Rep(c, n) == [i \in 1..n |-> c]

PeelSuffix == <<"^", "{", "}">>

\* "sha = sha[:12]" (util.go:517-518)
ShaLen == 12

\* the literals of the two cache keys
GitLsRemoteStr == <<"g", "i", "t", " ", "l", "s", "-", "r", "e", "m", "o", "t", "e">>
HTTPSStr == <<"h", "t", "t", "p", "s", ":", "/", "/">>
GoGetStr == <<"?", "g", "o", "-", "g", "e", "t", "=", "1">>
GoImportStr == <<"g", "o", "-", "i", "m", "p", "o", "r", "t">>
GitStr == <<"g", "i", "t">>

----------------------------------------------------------------------------
(* Cache: Get(key) -> (value, found), Put(key, value).  nilCache never     *)
(* holds anything; dirCache keeps what is Put.                             *)

NoEntries == [k \in {} |-> <<>>]

nilCache == [kind |-> "nil", store |-> NoEntries]

dirCache(store) == [kind |-> "dir", store |-> store]

CacheGet(c, key) ==
    IF c.kind = "dir" /\ key \in DOMAIN c.store
    THEN [ok |-> TRUE, b |-> c.store[key]]
    ELSE [ok |-> FALSE, b |-> <<>>]

CachePut(c, key, value) ==
    IF c.kind = "dir"
    THEN [c EXCEPT !.store = (key :> value) @@ c.store]
    ELSE c

----------------------------------------------------------------------------
(* Remote commit resolution *)

\* fmt.Sprintf("git ls-remote %s %s %s^{}", gitURL, rev, rev)
ShaKey(gitURL, rev) ==
    GitLsRemoteStr \o <<" ">> \o gitURL \o <<" ">> \o rev \o <<" ">> \o rev \o PeelSuffix

\* the scan loop of getSha over the lines of the ls-remote output:
\* sha and resolved are the loop's two variables
RECURSIVE ScanSha(_, _, _, _)
ScanSha_LastLineWins(lines, i, sha, resolved) ==
    IF i > Len(lines)
    THEN sha
    ELSE LET fields == Fields(lines[i])
         IN  IF Len(fields) # 2
             THEN ScanSha(lines, i + 1, sha, resolved)
             ELSE ScanSha(lines, i + 1,
                          IF Len(fields[1]) > ShaLen
                          THEN SubSeq(fields[1], 1, ShaLen) ELSE fields[1],
                          resolved)

ScanSha(lines, i, sha, resolved) ==
    IF i > Len(lines)
    THEN sha
    ELSE LET fields == Fields(lines[i])
         IN  IF Len(fields) # 2
             THEN ScanSha(lines, i + 1, sha, resolved)
             ELSE IF HasSuffix(fields[2], PeelSuffix)
                  THEN ScanSha(lines, i + 1,
                               IF Len(fields[1]) > ShaLen
                               THEN SubSeq(fields[1], 1, ShaLen) ELSE fields[1],
                               TRUE)
                  ELSE IF resolved
                       THEN ScanSha(lines, i + 1, sha, resolved)
                       ELSE ScanSha(lines, i + 1,
                                    IF Len(fields[1]) > ShaLen
                                    THEN SubSeq(fields[1], 1, ShaLen) ELSE fields[1],
                                    resolved)

\* getSha(gitURL, rev, cache), with out the outcome "git ls-remote" would have:
\* [err |-> the command failed, lines |-> the lines bufio.Scanner hands out of
\* its output, tooLong |-> the scanner then stops at a line longer than
\* bufio.MaxScanTokenSize, so that s.Err() is not nil].  In the result, err
\* is "the returned error is not nil", queried "the command was run" and put
\* "cache.Put was called".
getSha_NeverPut(gitURL, rev, c, out) ==
    LET key == ShaKey(gitURL, rev)
        hit == CacheGet(c, key)
        sha == ScanSha(out.lines, 1, <<>>, FALSE)
        res(v, e, q, p) == [sha |-> v, err |-> e, queried |-> q, put |-> p, key |-> key,
                            cache |-> IF p THEN CachePut(c, key, v) ELSE c]
    IN  IF hit.ok
        THEN res(hit.b, FALSE, FALSE, FALSE)
        ELSE IF out.err
             THEN res(<<>>, FALSE, TRUE, FALSE)
             ELSE IF out.tooLong
                  THEN res(<<>>, TRUE, TRUE, FALSE)
                  ELSE IF sha = <<>>
                       THEN res(<<>>, TRUE, TRUE, FALSE)
                       ELSE res(sha, FALSE, TRUE, FALSE)

getSha_RemoteErrorFatal(gitURL, rev, c, out) ==
    LET key == ShaKey(gitURL, rev)
        hit == CacheGet(c, key)
        sha == ScanSha(out.lines, 1, <<>>, FALSE)
        res(v, e, q, p) == [sha |-> v, err |-> e, queried |-> q, put |-> p, key |-> key,
                            cache |-> IF p THEN CachePut(c, key, v) ELSE c]
    IN  IF hit.ok
        THEN res(hit.b, FALSE, FALSE, FALSE)
        ELSE IF out.err \/ out.tooLong \/ sha = <<>>
             THEN res(<<>>, TRUE, TRUE, FALSE)
             ELSE res(sha, FALSE, TRUE, TRUE)

getSha(gitURL, rev, c, out) ==
    LET key == ShaKey(gitURL, rev)
        hit == CacheGet(c, key)
        sha == ScanSha(out.lines, 1, <<>>, FALSE)
        res(v, e, q, p) == [sha |-> v, err |-> e, queried |-> q, put |-> p, key |-> key,
                            cache |-> IF p THEN CachePut(c, key, v) ELSE c]
    IN  IF hit.ok
        THEN res(hit.b, FALSE, FALSE, FALSE)
        ELSE IF out.err
             THEN res(<<>>, FALSE, TRUE, FALSE)
             ELSE IF out.tooLong
                  THEN res(<<>>, TRUE, TRUE, FALSE)
                  ELSE IF sha = <<>>
                       THEN res(<<>>, TRUE, TRUE, FALSE)
                       ELSE res(sha, FALSE, TRUE, TRUE)

----------------------------------------------------------------------------
(* Git-origin resolution *)

\* "https://" + name + "?go-get=1"
URLKey(name) == HTTPSStr \o name \o GoGetStr

\* the tokenizer loop of resolveGitURL over the tags of the page, each tag
\* given by its name and content attributes; <<>> when the input ends
\* without a usable go-import tag
RECURSIVE ScanTags(_, _)
ScanTags(tags, i) ==
    IF i > Len(tags)
    THEN <<>>
    ELSE LET parts == Fields(tags[i].content)
         IN  IF tags[i].name = GoImportStr /\ Len(parts) = 3 /\ parts[2] = GitStr
             THEN parts[3]
             ELSE ScanTags(tags, i + 1)

\* resolveGitURL(name, cache), with resp the outcome http.Get would have:
\* [err |-> the request failed, status |-> StatusCode, tags |-> the page's tags]
resolveGitURL_FailureSwallowed(name, c, resp) ==
    LET u == URLKey(name)
        hit == CacheGet(c, u)
        resolved == ScanTags(resp.tags, 1)
        res(v, e, q, p) == [url |-> v, err |-> e, queried |-> q, put |-> p, key |-> u,
                            cache |-> IF p THEN CachePut(c, u, v) ELSE c]
    IN  IF hit.ok
        THEN res(hit.b, FALSE, FALSE, FALSE)
        ELSE IF resp.err \/ resp.status >= 400 \/ resolved = <<>>
             THEN res(<<>>, FALSE, TRUE, FALSE)
             ELSE res(resolved, FALSE, TRUE, TRUE)

resolveGitURL(name, c, resp) ==
    LET u == URLKey(name)
        hit == CacheGet(c, u)
        resolved == ScanTags(resp.tags, 1)
        res(v, e, q, p) == [url |-> v, err |-> e, queried |-> q, put |-> p, key |-> u,
                            cache |-> IF p THEN CachePut(c, u, v) ELSE c]
    IN  IF hit.ok
        THEN res(hit.b, FALSE, FALSE, FALSE)
        ELSE IF resp.err \/ resp.status >= 400
             THEN res(<<>>, TRUE, TRUE, FALSE)
             ELSE IF resolved = <<>>
                  THEN res(<<>>, TRUE, TRUE, FALSE)
                  ELSE res(resolved, FALSE, TRUE, TRUE)

----------------------------------------------------------------------------
(* Dependency sets *)

dependency(name, ref, sha, gitURL) ==
    [Name |-> name, Ref |-> ref, Sha |-> sha, Previous |-> <<>>, GitURL |-> gitURL]

----------------------------------------------------------------------------
(* Manifest parsing.  A manifest is the sequence of its lines, as            *)
(* bufio.Scanner hands them out; a parser returns [deps, err], err = ""     *)
(* for a nil error and deps = <<>> for a nil slice, with the text the error  *)
(* message quotes in a third field, at.                                     *)

vendorConf == <<"v", "e", "n", "d", "o", "r", ".", "c", "o", "n", "f">>
modulesTxt == <<"v", "e", "n", "d", "o", "r", "/", "m", "o", "d", "u", "l", "e", "s", ".", "t", "x", "t">>
goMod == <<"g", "o", ".", "m", "o", "d">>

IncompatibleStr == <<"+", "i", "n", "c", "o", "m", "p", "a", "t", "i", "b", "l", "e">>
GithubHost == <<"g", "i", "t", "h", "u", "b", ".", "c", "o", "m">>
K8sHost == <<"k", "8", "s", ".", "i", "o">>
SigsHost == <<"s", "i", "g", "s", ".", "k", "8", "s", ".", "i", "o">>
HTTPSGithubKubernetes == <<"h", "t", "t", "p", "s", ":", "/", "/", "g", "i", "t", "h", "u", "b", ".", "c", "o", "m", "/", "k", "u", "b", "e", "r", "n", "e", "t", "e", "s">>
HTTPSGithubKubernetesSigs == <<"h", "t", "t", "p", "s", ":", "/", "/", "g", "i", "t", "h", "u", "b", ".", "c", "o", "m", "/", "k", "u", "b", "e", "r", "n", "e", "t", "e", "s", "-", "s", "i", "g", "s">>
MarkerStr == <<"#">>
ArrowStr == <<"=", ">">>
LocalPrefix == <<".", "/">>

\* getCommitOrVersion: [cov, isSha]; cov = "" tells the caller of an error
getCommitOrVersion(cov) ==
    LET dashFields == DashFields(cov)
        isSha == Len(dashFields) = 3
        v == IF isSha THEN dashFields[3] ELSE cov
        incpIdx == Index(v, IncompatibleStr)
    IN  IF Len(dashFields) > 3
        THEN [cov |-> <<>>, isSha |-> FALSE]
        ELSE IF incpIdx > 0
             THEN [cov |-> SubSeq(v, 1, incpIdx), isSha |-> isSha]
             ELSE [cov |-> v, isSha |-> isSha]

\* getGitURL: the clone URL of the well-known hosts, "" for any other name
getGitURL(name) ==
    LET idx == Index(name, <<"/">>)
        host == SubSeq(name, 1, idx)
        rest == SubSeq(name, idx + 1, Len(name))
    IN  IF idx > 0
        THEN IF host = GithubHost THEN HTTPSStr \o name
             ELSE IF host = K8sHost THEN HTTPSGithubKubernetes \o rest
             ELSE IF host = SigsHost THEN HTTPSGithubKubernetesSigs \o rest
             ELSE <<>>
        ELSE <<>>

formatDependency(name, commitOrVersion, isSha) ==
    [Name |-> name, Ref |-> commitOrVersion,
     Sha |-> IF isSha THEN commitOrVersion ELSE <<>>,
     Previous |-> <<>>, GitURL |-> getGitURL(name)]

\* sanitizeLine(line, "#")
sanitizeLine(line, commentDelim) ==
    LET ln == TrimSpace(line)
        cidx == Index(ln, commentDelim)
    IN  IF ln = <<>> THEN <<>>
        ELSE IF cidx = 0 THEN <<>>
        ELSE IF cidx > 0 THEN TrimSpace(SubSeq(ln, 1, cidx))
        ELSE TrimSpace(ln)

\* regexp "[0-9a-f]{40}" and the length a matching token is cut to
HexDigits == {"0", "1", "2", "3", "4", "5", "6", "7", "8", "9", "a", "b", "c", "d", "e", "f"}
HexRun == 40
CommitLen == 12

\* re.Match: the token has HexRun hex digits in a row somewhere
MatchesCommit(tok) ==
    \E i \in 1..(Len(tok) - HexRun + 1) : \A j \in i..(i + HexRun - 1) : tok[j] \in HexDigits

RECURSIVE VendorConfLines(_, _, _)
VendorConfLines(lines, i, acc) ==
    IF i > Len(lines)
    THEN [deps |-> acc, err |-> "", at |-> <<>>]
    ELSE LET ln == sanitizeLine(lines[i], MarkerStr)
             parts == Fields(ln)
             gitURL == IF Len(parts) = 3 THEN parts[3] ELSE getGitURL(parts[1])
             isCommit == MatchesCommit(parts[2])
             commitOrVersion == IF isCommit THEN SubSeq(parts[2], 1, CommitLen) ELSE parts[2]
         IN  IF ln = <<>>
             THEN VendorConfLines(lines, i + 1, acc)
             ELSE IF Len(parts) # 2 /\ Len(parts) # 3
                  THEN [deps |-> <<>>, err |-> "invalid config format", at |-> ln]
                  ELSE VendorConfLines(lines, i + 1,
                         Append(acc, dependency(parts[1], commitOrVersion,
                                                IF isCommit THEN commitOrVersion ELSE <<>>,
                                                gitURL)))

\* parseVendorConfDependencies(r): lines are the lines bufio.Scanner hands
\* out of the reader, tooLong says that the scanner then stops at a line
\* longer than bufio.MaxScanTokenSize, so that s.Err() is not nil after the
\* loop
parseVendorConfDependencies(lines, tooLong) ==
    LET scanned == VendorConfLines(lines, 1, <<>>)
    IN  IF scanned.err = "" /\ tooLong
        THEN [deps |-> <<>>, err |-> "bufio.Scanner: token too long", at |-> <<>>]
        ELSE scanned

RECURSIVE ModulesTxtLines(_, _, _)
ModulesTxtLines(lines, i, acc) ==
    IF i > Len(lines)
    THEN [deps |-> acc, err |-> "", at |-> <<>>]
    ELSE LET ln == TrimSpace(lines[i])
             parts == Fields(ln)
             plain == Len(parts) = 3
             skipped == Len(parts) = 5 /\ parts[3] = ArrowStr
             replaced == Len(parts) = 6 /\ parts[4] = ArrowStr
             cv == getCommitOrVersion(IF plain THEN parts[3] ELSE parts[6])
         IN  IF ln = <<>> \/ parts[1] # MarkerStr \/ (~plain /\ skipped)
             THEN ModulesTxtLines(lines, i + 1, acc)
             ELSE IF ~plain /\ ~replaced
                  THEN [deps |-> <<>>, err |-> "unknown file format", at |-> ln]
                  ELSE IF cv.cov = <<>>
                       THEN [deps |-> <<>>, err |-> "unknown file format", at |-> parts[3]]
                       ELSE ModulesTxtLines(lines, i + 1,
                              Append(acc, formatDependency(parts[2], cv.cov, cv.isSha)))

\* parseModulesTxtDependencies(r): lines are the lines bufio.Scanner hands
\* out of the reader; s.Err() is not looked at, so a scan that stops at an
\* over-long line ends the loop the way the end of the file does
parseModulesTxtDependencies(lines) == ModulesTxtLines(lines, 1, <<>>)

\* the first module version of mods that getCommitOrVersion rejects, 0 if none
FirstBadVersion(mods) ==
    LET bad == {i \in DOMAIN mods : getCommitOrVersion(mods[i].Version).cov = <<>>}
    IN  IF bad = {} THEN 0 ELSE CHOOSE i \in bad : \A j \in bad : i <= j

\* "m[dep.Name] = &dep" for each module of mods in order: the last one stays
ModuleMap(mods) ==
    [n \in {mods[i].Path : i \in DOMAIN mods} |->
        LET i == CHOOSE k \in DOMAIN mods :
                    mods[k].Path = n /\ \A j \in DOMAIN mods : j > k => mods[j].Path # n
            cv == getCommitOrVersion(mods[i].Version)
        IN  formatDependency(n, cv.cov, cv.isSha)]

\* the replace targets that are not local paths
RemoteTargets(replace) ==
    LET keep == {i \in DOMAIN replace : ~HasPrefix(replace[i].New.Path, LocalPrefix)}
        F[i \in 0..Len(replace)] ==
            IF i = 0 THEN <<>>
            ELSE IF i \in keep THEN Append(F[i - 1], replace[i].New) ELSE F[i - 1]
    IN  F[Len(replace)]

\* depMap of parseGoModDependencies after the replaceMap loop, for gm what
\* modfile.ParseLax made of the file: [err, Require, Replace]
GoModDepMap(gm) ==
    LET depMap == ModuleMap(gm.Require)
        replaceMap == ModuleMap(RemoteTargets(gm.Replace))
    IN  [n \in DOMAIN depMap |->
            IF n \in DOMAIN replaceMap
            THEN [depMap[n] EXCEPT !.Ref = replaceMap[n].Ref,
                                   !.Sha = replaceMap[n].Sha,
                                   !.GitURL = replaceMap[n].GitURL]
            ELSE depMap[n]]

\* the slices "for _, dep := range depMap" can build: one per order
MapOrders(m) ==
    {[i \in 1..Cardinality(DOMAIN m) |-> m[o[i]]] :
        o \in {q \in [1..Cardinality(DOMAIN m) -> DOMAIN m] :
                  \A i, j \in DOMAIN q : i # j => q[i] # q[j]}}

\* A go.mod file is the sequence of its directives, [verb, Mod, New]: Mod
\* the module a require names or a replace replaces, New the replacement;
\* versions are in the canonical form the parser rewrites them to, and the
\* verb "error" stands for a line the parser rejects.
Module(path, version) == [Path |-> path, Version |-> version]
NoModule == Module(<<>>, <<>>)
Require(path, version) == [verb |-> "require", Mod |-> Module(path, version), New |-> NoModule]
Replace(old, new) == [verb |-> "replace", Mod |-> old, New |-> new]
SyntaxError == [verb |-> "error", Mod |-> NoModule, New |-> NoModule]

\* modfile.ParseLax("go.mod", contents, nil): the lax parse keeps the require
\* directives and ignores the directives that only concern a main module,
\* replace among them, so Replace is empty whatever the file says
ParseLax(contents) ==
    IF \E i \in DOMAIN contents : contents[i].verb = "error"
    THEN [err |-> TRUE, Require |-> <<>>, Replace |-> <<>>]
    ELSE [err |-> FALSE,
          Require |-> LET F[i \in 0..Len(contents)] ==
                              IF i = 0 THEN <<>>
                              ELSE IF contents[i].verb = "require"
                                   THEN Append(F[i - 1], contents[i].Mod)
                                   ELSE F[i - 1]
                      IN  F[Len(contents)],
          Replace |-> <<>>]

\* module.Version.String(): "path@version", the path alone without a version
ModString(mod) == IF mod.Version = <<>> THEN mod.Path ELSE mod.Path \o <<"@">> \o mod.Version

\* parseGoModDependencies: the set of results it can return
parseGoModDependencies(contents) ==
    LET gm == ParseLax(contents)
    IN  IF gm.err
        THEN {[deps |-> <<>>, err |-> "parse", at |-> <<>>]}
        ELSE IF FirstBadVersion(gm.Require) # 0
             THEN {[deps |-> <<>>, err |-> "unknown file format",
                    at |-> ModString(gm.Require[FirstBadVersion(gm.Require)])]}
             ELSE IF FirstBadVersion(RemoteTargets(gm.Replace)) # 0
                  THEN {[deps |-> <<>>, err |-> "unknown file format",
                         at |-> ModString(RemoteTargets(gm.Replace)[
                                    FirstBadVersion(RemoteTargets(gm.Replace))])]}
                  ELSE {[deps |-> ds, err |-> "", at |-> <<>>] : ds \in MapOrders(GoModDepMap(gm))}

\* fileFromRev: what "git show <rev>:<file>" gives, [found, content, tooLong]
fileFromRev(m, file) == m[file]

ProbeCall(file, found) == [fn |-> "fileFromRev", file |-> file, found |-> found]
ParseCall(file) == [fn |-> "parse", file |-> file, found |-> TRUE]

\* parseGoDependencies: the set of [ret, calls] it can end with
parseGoDependencies_FallThrough(m) ==
    LET vc == parseVendorConfDependencies(m[vendorConf].content, m[vendorConf].tooLong)
    IN  IF m[vendorConf].found /\ vc.err = ""
        THEN {[ret |-> vc, calls |-> <<ProbeCall(vendorConf, TRUE), ParseCall(vendorConf)>>]}
        ELSE IF m[modulesTxt].found
             THEN {[ret |-> parseModulesTxtDependencies(m[modulesTxt].content),
                    calls |-> <<ProbeCall(vendorConf, m[vendorConf].found),
                                ProbeCall(modulesTxt, TRUE), ParseCall(modulesTxt)>>]}
             ELSE {[ret |-> [deps |-> <<>>, err |-> "finding dependency file failed",
                            at |-> <<>>],
                    calls |-> <<ProbeCall(vendorConf, m[vendorConf].found),
                                ProbeCall(modulesTxt, FALSE), ProbeCall(goMod, FALSE)>>]}

parseGoDependencies(m) ==
    IF fileFromRev(m, vendorConf).found
    THEN {[ret |-> parseVendorConfDependencies(fileFromRev(m, vendorConf).content,
                                               fileFromRev(m, vendorConf).tooLong),
           calls |-> <<ProbeCall(vendorConf, TRUE), ParseCall(vendorConf)>>]}
    ELSE IF fileFromRev(m, modulesTxt).found
         THEN {[ret |-> parseModulesTxtDependencies(fileFromRev(m, modulesTxt).content),
                calls |-> <<ProbeCall(vendorConf, FALSE),
                            ProbeCall(modulesTxt, TRUE), ParseCall(modulesTxt)>>]}
         ELSE IF fileFromRev(m, goMod).found
              THEN {[ret |-> r,
                     calls |-> <<ProbeCall(vendorConf, FALSE), ProbeCall(modulesTxt, FALSE),
                                 ProbeCall(goMod, TRUE), ParseCall(goMod)>>] :
                        r \in parseGoModDependencies(fileFromRev(m, goMod).content)}
              ELSE {[ret |-> [deps |-> <<>>, err |-> "finding dependency file failed",
                             at |-> <<>>],
                     calls |-> <<ProbeCall(vendorConf, FALSE), ProbeCall(modulesTxt, FALSE),
                                 ProbeCall(goMod, FALSE)>>]}

----------------------------------------------------------------------------
(* Dependency maps and renames *)

\* toDepMap: out[d.Name] = d for each d in order, so the last one stays
toDepMap_FirstStays(ds) ==
    [n \in {ds[i].Name : i \in DOMAIN ds} |->
        ds[CHOOSE i \in DOMAIN ds :
              /\ ds[i].Name = n
              /\ \A j \in DOMAIN ds : j < i => ds[j].Name # n]]

toDepMap(ds) ==
    [n \in {ds[i].Name : i \in DOMAIN ds} |->
        ds[CHOOSE i \in DOMAIN ds :
              /\ ds[i].Name = n
              /\ \A j \in DOMAIN ds : j > i => ds[j].Name # n]]

\* the renameMap renameDependencies builds by ranging over renames: one
\* entry per Old path; of several renames with the same Old path the one
\* ranged over last stays, and the order of a map range is not fixed
RenameMaps(rn) ==
    LET olds == {rn[s].Old : s \in DOMAIN rn}
    IN  {f \in [olds -> {rn[s].New : s \in DOMAIN rn}] :
            \A o \in olds : \E s \in DOMAIN rn : rn[s].Old = o /\ rn[s].New = f[o]}

\* renameDependencies, given the renameMap it built
renameDependencies_None(ds, renameMap) == ds
renameDependencies(ds, renameMap) ==
    [i \in DOMAIN ds |->
        IF ds[i].Name \in DOMAIN renameMap
        THEN [ds[i] EXCEPT !.Name = renameMap[ds[i].Name]]
        ELSE ds[i]]

----------------------------------------------------------------------------
(* One iteration of the range loop of getUpdatedDeps *)

\* the record of one call in the log: its arguments, the outcome the remote
\* query had or would have had, and what the call returned and did
ShaCall(name, gitURL, rev, out, r) ==
    [fn |-> "getSha", dep |-> name, url |-> gitURL, rev |-> rev, key |-> r.key,
     remote |-> out, val |-> r.sha, err |-> r.err, queried |-> r.queried, put |-> r.put]

URLCall(name, resp, r) ==
    [fn |-> "resolveGitURL", dep |-> name, url |-> <<>>, rev |-> <<>>, key |-> r.key,
     remote |-> resp, val |-> r.url, err |-> r.err, queried |-> r.queried, put |-> r.put]

\* "if d.Sha == "" { ... }": resolve the previous entry's Sha
ResolvePrevious(name, d, c, ca, resp, out) ==
    IF d.Sha # <<>>
    THEN [err |-> "", d |-> d, c |-> c, cache |-> ca, calls |-> <<>>]
    ELSE LET needURL == d.GitURL = <<>>
             r1 == resolveGitURL(name, ca, resp)
             d1 == IF needURL THEN [d EXCEPT !.GitURL = r1.url] ELSE d
             c1 == IF needURL /\ c.GitURL = <<>> THEN [c EXCEPT !.GitURL = d1.GitURL] ELSE c
             ca1 == IF needURL THEN r1.cache ELSE ca
             l1 == IF needURL THEN <<URLCall(name, resp, r1)>> ELSE <<>>
             r2 == getSha(d1.GitURL, d1.Ref, ca1, out)
         IN  IF needURL /\ r1.err
             THEN [err |-> "git url", d |-> d, c |-> c, cache |-> r1.cache, calls |-> l1]
             ELSE IF r2.err
                  THEN [err |-> "failed to get sha", d |-> d1, c |-> c1,
                        cache |-> r2.cache, calls |-> Append(l1, ShaCall(name, d1.GitURL, d1.Ref, out, r2))]
                  ELSE [err |-> "", d |-> [d1 EXCEPT !.Sha = r2.sha], c |-> c1,
                        cache |-> r2.cache, calls |-> Append(l1, ShaCall(name, d1.GitURL, d1.Ref, out, r2))]

\* "if c.Sha == "" { ... }": resolve the current entry's Sha
ResolveCurrent(name, c, ca, resp, out) ==
    IF c.Sha # <<>>
    THEN [err |-> "", c |-> c, cache |-> ca, calls |-> <<>>]
    ELSE LET needURL == c.GitURL = <<>>
             r1 == resolveGitURL(name, ca, resp)
             c1 == IF needURL THEN [c EXCEPT !.GitURL = r1.url] ELSE c
             ca1 == IF needURL THEN r1.cache ELSE ca
             l1 == IF needURL THEN <<URLCall(name, resp, r1)>> ELSE <<>>
             r2 == getSha(c1.GitURL, c1.Ref, ca1, out)
         IN  IF needURL /\ r1.err
             THEN [err |-> "git url", c |-> c, cache |-> r1.cache, calls |-> l1]
             ELSE IF r2.err
                  THEN [err |-> "failed to get sha", c |-> c1,
                        cache |-> r2.cache, calls |-> Append(l1, ShaCall(name, c1.GitURL, c1.Ref, out, r2))]
                  ELSE [err |-> "", c |-> [c1 EXCEPT !.Sha = r2.sha],
                        cache |-> r2.cache, calls |-> Append(l1, ShaCall(name, c1.GitURL, c1.Ref, out, r2))]

\* "if _, ok := ignoreMap[name]; ok { continue }"
isIgnored_Never(name, ignoreMap) == FALSE
isIgnored(name, ignoreMap) == name \in ignoreMap

\* "d, ok := pm[name]; if !ok"
isNew(name, pmap) == name \notin DOMAIN pmap

\* "if d.Ref != c.Ref"
refChanged_Always(d, c) == TRUE
refChanged(d, c) == d.Ref # c.Ref

\* "if d.Sha != c.Sha"
shaChanged(d, c) == d.Sha # c.Sha

\* "updated = append(updated, c)" for a new dependency
emitNew_WithPrevious(c) == [c EXCEPT !.Previous = c.Ref]
emitNew(c) == c

\* "c.Previous = d.Ref; updated = append(updated, c)"
emitUpdated_CurrentRef(d, c) == [c EXCEPT !.Previous = c.Ref]
emitUpdated(d, c) == [c EXCEPT !.Previous = d.Ref]

\* the resolution part of the loop body, for a dependency whose Ref changed
Compare(name, d, c, ca, respD, outD, respC, outC) ==
    LET rd == ResolvePrevious(name, d, c, ca, respD, outD)
        rc == ResolveCurrent(name, rd.c, rd.cache, respC, outC)
    IN  IF rd.err # ""
        THEN [err |-> rd.err, emit |-> <<>>, cache |-> rd.cache, calls |-> rd.calls]
        ELSE IF rc.err # ""
             THEN [err |-> rc.err, emit |-> <<>>,
                   cache |-> rc.cache, calls |-> rd.calls \o rc.calls]
             ELSE [err |-> "",
                   emit |-> IF shaChanged(rd.d, rc.c)
                            THEN <<emitUpdated(rd.d, rc.c)>> ELSE <<>>,
                   cache |-> rc.cache, calls |-> rd.calls \o rc.calls]

\* the body of "for name, c := range cm": emit is what it appends to updated
\* (nothing or one dependency), err the error it returns with ("" for none).
\* respD, outD, respC, outC are the outcomes the remote queries would have.
LoopBody(name, pmap, cmap, ignoreMap, ca, respD, outD, respC, outC) ==
    LET c == cmap[name]
        none == [err |-> "", emit |-> <<>>, cache |-> ca, calls |-> <<>>]
    IN  IF isIgnored(name, ignoreMap)
        THEN none
        ELSE IF isNew(name, pmap)
             THEN [none EXCEPT !.emit = <<emitNew(c)>>]
             ELSE IF refChanged(pmap[name], c)
                  THEN Compare(name, pmap[name], c, ca, respD, outD, respC, outC)
                  ELSE none

----------------------------------------------------------------------------
(* The inputs the model ranges over *)

NameA == <<"x", ".", "i", "o", "/", "a">>
NameB == <<"x", ".", "i", "o", "/", "b">>
NameOld == <<"x", ".", "i", "o", "/", "o">>
RefV1 == <<"v", "1">>
RefV2 == <<"v", "2">>
HashA == Rep("a", 40)
HashB == Rep("b", 40)
ShaA == Rep("a", ShaLen)
ShaB == Rep("b", ShaLen)
URLGiven == <<"g", "i", "t", ":", "u">>
URLMeta == <<"g", "i", "t", ":", "m">>

\* dependencies as a manifest parser returns them: Previous is never set
PreviousDeps ==
    { dependency(NameA, RefV1, <<>>, <<>>),
      dependency(NameA, RefV1, <<>>, URLGiven),
      dependency(NameA, RefV1, ShaA, URLGiven),
      dependency(NameA, RefV2, <<>>, <<>>),
      dependency(NameOld, RefV1, <<>>, URLGiven) }

CurrentDeps ==
    { dependency(NameA, RefV2, <<>>, <<>>),
      dependency(NameA, RefV2, <<>>, URLGiven),
      dependency(NameA, RefV2, ShaA, URLGiven),
      dependency(NameB, RefV2, ShaB, URLGiven) }

SeqsUpTo(S, n) == UNION {[1..k -> S] : k \in 0..n}

IgnoreLists == {<<>>, <<NameA>>}

NoRenames == [s \in {} |-> <<>>]

RenameSets ==
    { NoRenames,
      [s \in {"b"} |-> [Old |-> NameOld, New |-> NameB]],
      [s \in {"a", "b"} |->
          IF s = "a" THEN [Old |-> NameOld, New |-> NameA]
                     ELSE [Old |-> NameOld, New |-> NameB]] }

\* what an earlier run may have left in the cache directory
StoredEntries == (URLKey(NameA) :> URLMeta) @@ (ShaKey(URLGiven, RefV1) :> ShaB)

Caches == {nilCache, dirCache(NoEntries), dirCache(StoredEntries)}

\* outcomes of "git ls-remote <url> <rev> <rev>^{}"
LsLine(hash, ref) == hash \o <<"\t">> \o ref
TagRef == <<"r", "/", "t">>
LsOutput(err, lines, tooLong) == [err |-> err, lines |-> lines, tooLong |-> tooLong]
LsOutputs ==
    { LsOutput(TRUE, <<>>, FALSE),
      LsOutput(FALSE, <<>>, FALSE),
      LsOutput(FALSE, << <<"w", " ", "w", " ", "w">> >>, FALSE),
      LsOutput(FALSE, <<LsLine(HashA, TagRef)>>, FALSE),
      LsOutput(FALSE, <<LsLine(HashB, TagRef)>>, FALSE),
      LsOutput(FALSE, <<LsLine(HashA, TagRef), LsLine(HashB, TagRef \o PeelSuffix)>>, FALSE),
      LsOutput(FALSE, <<LsLine(HashB, TagRef \o PeelSuffix), LsLine(HashA, TagRef)>>, FALSE),
      LsOutput(FALSE, <<LsLine(HashA, TagRef), LsLine(HashB, TagRef \o PeelSuffix)>>, TRUE) }

\* outcomes of http.Get("https://<name>?go-get=1")
Tag(name, content) == [name |-> name, content |-> content]
Content(vcs) == <<"p", " ">> \o vcs \o <<"\n">> \o URLMeta
HTTPResponses ==
    { [err |-> TRUE, status |-> 0, tags |-> <<>>],
      [err |-> FALSE, status |-> 404, tags |-> <<>>],
      [err |-> FALSE, status |-> 200, tags |-> <<>>],
      [err |-> FALSE, status |-> 200, tags |-> <<Tag(GoImportStr, Content(<<"h", "g">>))>>],
      [err |-> FALSE, status |-> 200, tags |-> <<Tag(GoImportStr, <<"p", " ">> \o GitStr)>>],
      [err |-> FALSE, status |-> 200, tags |-> <<Tag(GoImportStr, Content(GitStr))>>],
      [err |-> FALSE, status |-> 200,
       tags |-> <<Tag(<<"d">>, <<"x">>), Tag(GoImportStr, Content(GitStr))>>] }

\* the outcomes the differ is run against: one of each kind
DiffLsOutputs ==
    { LsOutput(TRUE, <<>>, FALSE),
      LsOutput(FALSE, <<>>, FALSE),
      LsOutput(FALSE, <<LsLine(HashA, TagRef)>>, FALSE),
      LsOutput(FALSE, <<LsLine(HashA, TagRef), LsLine(HashB, TagRef \o PeelSuffix)>>, FALSE),
      LsOutput(FALSE, <<LsLine(HashA, TagRef)>>, TRUE) }

DiffHTTPResponses ==
    { r \in HTTPResponses : Len(r.tags) <= 1 }

\* stands for the outcome of a query that is not made
NoQuery == [err |-> TRUE, status |-> 0, tags |-> <<>>, lines |-> <<>>, tooLong |-> FALSE]

\* manifest files of a revision
ManifestFiles == {vendorConf, modulesTxt, goMod}
\* content is what the file's parser reads: for the two files read line by
\* line the lines the scanner hands out, with tooLong for a scan that stops at
\* an over-long line; for go.mod, read whole, its directives
Absent == [found |-> FALSE, content |-> <<>>, tooLong |-> FALSE]
Present(content) == [found |-> TRUE, content |-> content, tooLong |-> FALSE]
CutShort(content) == [found |-> TRUE, content |-> content, tooLong |-> TRUE]
NoManifests == [f \in ManifestFiles |-> Absent]

PseudoVersion == <<"v", "0", "-", "2", "-">> \o Rep("c", CommitLen)
VendorConfPool ==
    {NameA \o <<" ">> \o RefV1 \o <<" ", "#", "c">>,
     NameB \o <<" ">> \o HashB \o <<" ">> \o URLGiven,
     <<"#", "c">>,
     NameA}
ModulesTxtPool ==
    {MarkerStr \o <<" ">> \o NameA \o <<" ">> \o RefV1,
     MarkerStr \o <<" ">> \o NameOld \o <<" ">> \o RefV1 \o <<" ">> \o ArrowStr
         \o <<" ">> \o NameB \o <<" ">> \o PseudoVersion,
     MarkerStr \o <<" ">> \o NameA \o <<" ">> \o ArrowStr \o <<" ">> \o NameB
         \o <<" ">> \o RefV2,
     MarkerStr \o <<" ">> \o NameA \o <<" ">> \o RefV1 \o <<" ">> \o ArrowStr
         \o <<" ">> \o LocalPrefix \o <<"l">>,
     NameA \o <<"/", "p">>}
SemV1 == <<"v", "1", ".", "0", ".", "0">>
SemV2 == <<"v", "2", ".", "0", ".", "0">>
SemPseudo == <<"v", "0", ".", "0", ".", "0">> \o <<"-", "2", "-">> \o Rep("c", CommitLen)
SemPre == <<"v", "1", ".", "0", ".", "0">> \o <<"-", "p", "-", "r">>
SemLong == <<"v", "1", ".", "0", ".", "0">> \o <<"-", "a", "-", "b", "-", "c">>
GoModPool ==
    {<<SyntaxError>>,
     <<Require(NameA, SemV1)>>,
     <<Require(NameA, SemV1), Require(NameB, SemV2 \o IncompatibleStr),
       Replace(Module(NameB, <<>>), Module(NameB, SemPseudo)),
       Replace(Module(NameA, <<>>), Module(LocalPrefix \o <<"l">>, <<>>))>>,
     <<Require(NameA, SemLong)>>,
     <<Require(NameA, SemV1), Replace(Module(NameA, <<>>), Module(NameA, SemLong))>>}
ManifestSets ==
    {[f \in ManifestFiles |->
         IF f = vendorConf THEN v ELSE IF f = modulesTxt THEN t ELSE g] :
        v \in {Absent} \cup {Present(c) : c \in SeqsUpTo(VendorConfPool, MaxLines)}
                        \cup {CutShort(c) : c \in SeqsUpTo(VendorConfPool, MaxLines - 1)},
        t \in {Absent} \cup {Present(c) : c \in SeqsUpTo(ModulesTxtPool, MaxLines)},
        g \in {Absent} \cup {Present(c) : c \in GoModPool}}


----------------------------------------------------------------------------
(* main: renameDependencies, then getUpdatedDeps *)

NoReturn == [deps |-> <<>>, err |-> ""]

Init ==
    /\ pc = "rename"
    /\ previous \in SeqsUpTo(PreviousDeps, MaxDeps)
    /\ deps \in SeqsUpTo(CurrentDeps, MaxDeps - Len(previous))
    /\ previous0 = previous
    /\ renames \in RenameSets
    /\ ignored \in IgnoreLists
    /\ cache \in Caches
    /\ pm = NoEntries
    /\ cm = NoEntries
    /\ todo = {}
    /\ updated = <<>>
    /\ ret = NoReturn
    /\ calls = <<>>
    /\ manifests = NoManifests
    /\ input = <<>>
    /\ results = <<>>

\* main: renameDependencies(previous, r.RenameDeps)
RenameDeps ==
    /\ pc = "rename"
    /\ \E renameMap \in RenameMaps(renames) :
          previous' = renameDependencies(previous, renameMap)
    /\ pc' = "diff"
    /\ UNCHANGED <<input, results, manifests, deps, previous0, renames, ignored, cache, pm, cm, todo, updated, ret, calls>>

\* getUpdatedDeps up to its range loop; with nothing to range over it returns
GetUpdatedDeps ==
    /\ pc = "diff"
    /\ pm' = toDepMap(previous)
    /\ cm' = toDepMap(deps)
    /\ todo' = DOMAIN cm'
    /\ updated' = <<>>
    /\ IF todo' = {}
       THEN pc' = "done" /\ ret' = [deps |-> <<>>, err |-> ""]
       ELSE pc' = "loop" /\ ret' = ret
    /\ UNCHANGED <<input, results, manifests, previous, deps, previous0, renames, ignored, cache, calls>>

ignoreMap == {ignored[i] : i \in DOMAIN ignored}

\* one iteration of "for name, c := range cm", on any key not yet visited;
\* the last iteration, or an error, makes getUpdatedDeps return
RangeLoop ==
    /\ pc = "loop"
    /\ \E name \in todo :
        LET compared == /\ ~isIgnored(name, ignoreMap)
                        /\ ~isNew(name, pm)
                        /\ refChanged(pm[name], cm[name])
            needD == compared /\ pm[name].Sha = <<>>
        IN  \E respD \in IF needD /\ pm[name].GitURL = <<>> THEN DiffHTTPResponses ELSE {NoQuery},
               outD \in IF needD THEN DiffLsOutputs ELSE {NoQuery} :
            \E rd \in IF compared
                      THEN {ResolvePrevious(name, pm[name], cm[name], cache, respD, outD)}
                      ELSE {[err |-> "", c |-> cm[name]]} :
            LET needC == compared /\ rd.err = "" /\ rd.c.Sha = <<>>
            IN  \E respC \in IF needC /\ rd.c.GitURL = <<>> THEN DiffHTTPResponses ELSE {NoQuery},
                   outC \in IF needC THEN DiffLsOutputs ELSE {NoQuery} :
                \E r \in {LoopBody(name, pm, cm, ignoreMap, cache, respD, outD, respC, outC)} :
                    /\ cache' = r.cache
                    /\ calls' = calls \o r.calls
                    /\ todo' = todo \ {name}
                    /\ IF r.err # ""
                       THEN /\ updated' = updated
                            /\ ret' = [deps |-> <<>>, err |-> r.err]
                            /\ pc' = "done"
                       ELSE /\ updated' = updated \o r.emit
                            /\ IF todo' = {}
                               THEN pc' = "done" /\ ret' = [deps |-> updated', err |-> ""]
                               ELSE pc' = "loop" /\ ret' = ret
    /\ UNCHANGED <<input, results, manifests, previous, deps, previous0, renames, ignored, pm, cm>>

\* sort.Slice(updatedDeps, by Name): the orders the sort can leave the slice
\* in; records of the same Name may end in any order
SortedByName(ds) ==
    {[i \in DOMAIN ds |-> ds[o[i]]] :
        o \in {q \in [DOMAIN ds -> DOMAIN ds] :
                  /\ \A i, j \in DOMAIN ds : i # j => q[i] # q[j]
                  /\ \A i, j \in DOMAIN ds : i < j => ~Less(ds[q[j]].Name, ds[q[i]].Name)}}

\* main, after getUpdatedDeps has returned without error: the returned slice
\* is sorted in place
SortUpdated ==
    /\ pc = "done"
    /\ ret.err = ""
    /\ \E sorted \in SortedByName(ret.deps) : ret' = [ret EXCEPT !.deps = sorted]
    /\ pc' = "sorted"
    /\ UNCHANGED <<input, results, manifests, previous, deps, previous0, renames, ignored,
                   cache, pm, cm, todo, updated, calls>>

Next == RenameDeps \/ GetUpdatedDeps \/ RangeLoop \/ SortUpdated

Spec == Init /\ [][Next]_vars

----------------------------------------------------------------------------
(* The two resolution functions called one after the other on one cache *)

InitCalls ==
    /\ pc = "calls"
    /\ cache \in Caches
    /\ calls = <<>>
    /\ previous = <<>>
    /\ deps = <<>>
    /\ previous0 = <<>>
    /\ renames = NoRenames
    /\ ignored = <<>>
    /\ pm = NoEntries
    /\ cm = NoEntries
    /\ todo = {}
    /\ updated = <<>>
    /\ ret = NoReturn
    /\ manifests = NoManifests
    /\ input = <<>>
    /\ results = <<>>

\* getSha(gitURL, rev, cache)
CallGetSha ==
    /\ pc = "calls"
    /\ Len(calls) < MaxCalls
    /\ \E gitURL \in {URLGiven, URLMeta}, rev \in {RefV1, RefV2}, out \in LsOutputs :
        \E r \in {getSha(gitURL, rev, cache, out)} :
            /\ cache' = r.cache
            /\ calls' = Append(calls, ShaCall(<<>>, gitURL, rev, out, r))
    /\ UNCHANGED <<input, results, manifests, pc, previous, deps, previous0, renames, ignored, pm, cm, todo, updated, ret>>

\* resolveGitURL(name, cache)
CallResolveGitURL ==
    /\ pc = "calls"
    /\ Len(calls) < MaxCalls
    /\ \E name \in {NameA, NameB}, resp \in HTTPResponses :
        \E r \in {resolveGitURL(name, cache, resp)} :
            /\ cache' = r.cache
            /\ calls' = Append(calls, URLCall(name, resp, r))
    /\ UNCHANGED <<input, results, manifests, pc, previous, deps, previous0, renames, ignored, pm, cm, todo, updated, ret>>

NextCalls == CallGetSha \/ CallResolveGitURL

SpecCalls == InitCalls /\ [][NextCalls]_vars

----------------------------------------------------------------------------
(* parseGoDependencies on the manifests of one revision *)

InitProbe ==
    /\ pc = "probe"
    /\ manifests \in ManifestSets
    /\ cache = nilCache
    /\ calls = <<>>
    /\ previous = <<>>
    /\ deps = <<>>
    /\ previous0 = <<>>
    /\ renames = NoRenames
    /\ ignored = <<>>
    /\ pm = NoEntries
    /\ cm = NoEntries
    /\ todo = {}
    /\ updated = <<>>
    /\ ret = NoReturn
    /\ input = <<>>
    /\ results = <<>>

\* parseGoDependencies(commit)
ParseGoDependencies ==
    /\ pc = "probe"
    /\ \E r \in parseGoDependencies(manifests) :
        /\ ret' = r.ret
        /\ calls' = r.calls
    /\ pc' = "probed"
    /\ UNCHANGED <<input, results, manifests, previous, deps, previous0, renames, ignored, cache, pm, cm,
                   todo, updated>>

NextProbe == ParseGoDependencies

SpecProbe == InitProbe /\ [][NextProbe]_vars

----------------------------------------------------------------------------
(* getCommitOrVersion on one version token *)

\* the parts version tokens are made of, joined by dashes
PartPool ==
    {<<"v", "1">>, <<"c">>, IncompatibleStr,
     <<"v", "2">> \o IncompatibleStr \o <<"x">>, <<>>}

RECURSIVE DashJoin(_)
DashJoin(parts) ==
    IF Len(parts) = 0 THEN <<>>
    ELSE IF Len(parts) = 1 THEN parts[1]
    ELSE parts[1] \o <<"-">> \o DashJoin(Tail(parts))

VersionTokens == {DashJoin(ps) : ps \in SeqsUpTo(PartPool, MaxParts)}

InitVersion ==
    /\ pc = "version"
    /\ input \in VersionTokens
    /\ results = <<>>
    /\ manifests = NoManifests
    /\ cache = nilCache
    /\ calls = <<>>
    /\ previous = <<>>
    /\ deps = <<>>
    /\ previous0 = <<>>
    /\ renames = NoRenames
    /\ ignored = <<>>
    /\ pm = NoEntries
    /\ cm = NoEntries
    /\ todo = {}
    /\ updated = <<>>
    /\ ret = NoReturn

\* getCommitOrVersion(cov)
GetCommitOrVersion ==
    /\ pc = "version"
    /\ results' = <<getCommitOrVersion(input)>>
    /\ pc' = "versioned"
    /\ UNCHANGED <<input, manifests, previous, deps, previous0, renames, ignored, cache, pm,
                   cm, todo, updated, ret, calls>>

NextVersion == GetCommitOrVersion

SpecVersion == InitVersion /\ [][NextVersion]_vars

----------------------------------------------------------------------------
(* One manifest parser called twice on the same content *)

VendorConfLinePool ==
    VendorConfPool \cup
    {NameA \o <<" ", "z", "z">> \o HashA,
     GithubHost \o <<"/", "u", "\f">> \o RefV1}
ModulesTxtLinePool ==
    ModulesTxtPool \cup
    {MarkerStr \o <<" ">> \o NameA \o <<" ">> \o SemPre,
     MarkerStr \o <<" ">> \o NameB \o <<"\r">> \o SemLong,
     MarkerStr \o <<" ">> \o NameB}
GoModDirectivePool ==
    {Require(NameA, SemV1),
     Require(NameB, SemV2 \o IncompatibleStr),
     Require(NameA, SemPre),
     Require(NameB, SemLong),
     Replace(Module(NameA, <<>>), Module(NameA, SemV2)),
     Replace(Module(NameA, <<>>), Module(NameB, SemPseudo)),
     Replace(Module(NameB, <<>>), Module(LocalPrefix \o <<"l">>, <<>>)),
     SyntaxError}

VendorConfInputs ==
    {[file |-> vendorConf, content |-> c, tooLong |-> FALSE] :
        c \in SeqsUpTo(VendorConfLinePool, MaxLines)}
    \cup {[file |-> vendorConf, content |-> c, tooLong |-> TRUE] :
             c \in SeqsUpTo(VendorConfLinePool, MaxLines - 1)}
ModulesTxtInputs ==
    {[file |-> modulesTxt, content |-> c, tooLong |-> FALSE] :
        c \in SeqsUpTo(ModulesTxtLinePool, MaxLines)}
GoModInputs ==
    {[file |-> goMod, content |-> c, tooLong |-> FALSE] :
        c \in SeqsUpTo(GoModDirectivePool, MaxLines)}

\* the parser parseGoDependencies hands a file to: the results it can return
parseManifest(file, content, tooLong) ==
    IF file = vendorConf THEN {parseVendorConfDependencies(content, tooLong)}
    ELSE IF file = modulesTxt THEN {parseModulesTxtDependencies(content)}
    ELSE parseGoModDependencies(content)

InitParse ==
    /\ pc = "parse"
    /\ \/ input \in VendorConfInputs
       \/ input \in ModulesTxtInputs
       \/ input \in GoModInputs
    /\ results = <<>>
    /\ manifests = NoManifests
    /\ cache = nilCache
    /\ calls = <<>>
    /\ previous = <<>>
    /\ deps = <<>>
    /\ previous0 = <<>>
    /\ renames = NoRenames
    /\ ignored = <<>>
    /\ pm = NoEntries
    /\ cm = NoEntries
    /\ todo = {}
    /\ updated = <<>>
    /\ ret = NoReturn

\* the first call of the parser on the content
ParseOnce ==
    /\ pc = "parse"
    /\ \E r \in parseManifest(input.file, input.content, input.tooLong) : results' = <<r>>
    /\ pc' = "parsed"
    /\ UNCHANGED <<input, manifests, previous, deps, previous0, renames, ignored, cache, pm,
                   cm, todo, updated, ret, calls>>

\* a second call of the same parser on the same content
ParseAgain ==
    /\ pc = "parsed"
    /\ \E r \in parseManifest(input.file, input.content, input.tooLong) : results' = Append(results, r)
    /\ pc' = "reparsed"
    /\ UNCHANGED <<input, manifests, previous, deps, previous0, renames, ignored, cache, pm,
                   cm, todo, updated, ret, calls>>

NextParse == ParseOnce \/ ParseAgain

SpecParse == InitParse /\ [][NextParse]_vars

----------------------------------------------------------------------------
(* What the claims speak of *)

\* getUpdatedDeps has built its maps
Started == pc \in {"loop", "done", "sorted"}

\* the range loop has been over name, and no iteration has failed
Visited(name) == Started /\ name \in DOMAIN cm /\ name \notin todo /\ ret.err = ""

\* the places of name in the slice being built
EmittedAt(name) == {i \in DOMAIN updated : updated[i].Name = name}

\* the calls made for name
CallsOf(name) == {i \in DOMAIN calls : calls[i].dep = name}

\* name is in the ignore list
InIgnoreList(name) == \E i \in DOMAIN ignored : ignored[i] = name

\* name is in the (renamed) previous slice
InPrevious(name) == \E i \in DOMAIN previous : previous[i].Name = name

\* name is in both sets with different Refs, and not ignored
RefDiffers(name) ==
    /\ name \in DOMAIN cm
    /\ ~InIgnoreList(name)
    /\ InPrevious(name)
    /\ pm[name].Ref # cm[name].Ref

\* the getSha calls made for name with the Ref of x
ShaCallsOf(name, x) ==
    {i \in CallsOf(name) : calls[i].fn = "getSha" /\ calls[i].rev = x.Ref}

\* the Sha of x after resolution: its own, or what getSha returned for its Ref
ResolvedSha(name, x) ==
    IF x.Sha # <<>>
    THEN x.Sha
    ELSE calls[CHOOSE i \in ShaCallsOf(name, x) : TRUE].val

\* a normal return hands out the slice that was built
ReturnsUpdated == (pc = "done" /\ ret.err = "") => ret.deps = updated

\* C1: a dependency that is not ignored and has the same Ref in both sets is
\* not emitted and no resolveGitURL or getSha call (hence no cache lookup and
\* no remote query) is made for it; every call that is made is for a
\* dependency present in both sets whose Ref differs.
C1_EqualRefNoResolution ==
    Started =>
      /\ \A n \in DOMAIN cm :
            (~InIgnoreList(n) /\ InPrevious(n) /\ pm[n].Ref = cm[n].Ref)
            => /\ EmittedAt(n) = {}
               /\ CallsOf(n) = {}
               /\ \A i \in DOMAIN ret.deps : ret.deps[i].Name # n
      /\ \A i \in DOMAIN calls : RefDiffers(calls[i].dep)

\* an equal-Ref dependency with nothing resolved on either side has been
\* ranged over and getUpdatedDeps has returned
C1_Witness ==
    /\ pc = "done"
    /\ ret.err = ""
    /\ \E n \in DOMAIN cm :
          /\ ~InIgnoreList(n) /\ InPrevious(n)
          /\ pm[n].Ref = cm[n].Ref
          /\ pm[n].Sha = <<>> /\ cm[n].Sha = <<>>
          /\ Cardinality(DOMAIN cm) > 1

\* C2: for a dependency that is not ignored, is in both sets and has
\* different Refs, once the missing Shas of d and c are resolved: it is not
\* emitted when the two Shas are equal, and otherwise it is emitted exactly
\* once, with Previous = d.Ref, c's Ref and c's resolved Sha.
C2_EmittedIffShaDiffers ==
    /\ ReturnsUpdated
    /\ \A n \in DOMAIN cm :
          (Visited(n) /\ RefDiffers(n))
          => /\ pm[n].Sha = <<>> => ShaCallsOf(n, pm[n]) # {}
             /\ cm[n].Sha = <<>> => ShaCallsOf(n, cm[n]) # {}
             /\ IF ResolvedSha(n, pm[n]) = ResolvedSha(n, cm[n])
                THEN EmittedAt(n) = {}
                ELSE /\ Cardinality(EmittedAt(n)) = 1
                     /\ \A i \in EmittedAt(n) :
                           /\ updated[i].Previous = pm[n].Ref
                           /\ updated[i].Ref = cm[n].Ref
                           /\ updated[i].Sha = ResolvedSha(n, cm[n])

\* both outcomes have happened in one run's history: a dependency whose Shas
\* were both resolved remotely to different commits has been emitted
C2_Witness ==
    /\ pc = "done"
    /\ ret.err = ""
    /\ \E n \in DOMAIN cm :
          /\ RefDiffers(n)
          /\ pm[n].Sha = <<>> /\ cm[n].Sha = <<>>
          /\ ResolvedSha(n, pm[n]) # <<>>
          /\ ResolvedSha(n, cm[n]) # <<>>
          /\ ResolvedSha(n, pm[n]) # ResolvedSha(n, cm[n])
          /\ EmittedAt(n) # {}

\* C3 (as claimed): a dependency with different Refs whose two remote ref
\* queries both fail, so that both Shas stay empty, is emitted with
\* Previous = d.Ref.
C3_UnresolvedStillEmitted ==
    \A n \in DOMAIN cm :
        ( /\ Visited(n) /\ RefDiffers(n)
          /\ pm[n].Sha = <<>> /\ cm[n].Sha = <<>>
          /\ \A i \in ShaCallsOf(n, pm[n]) \cup ShaCallsOf(n, cm[n]) :
                calls[i].queried /\ calls[i].remote.err )
        => \E i \in EmittedAt(n) : updated[i].Previous = pm[n].Ref

\* C4: a dependency of the current set that is not ignored and has no entry
\* of its Name in the renamed previous set is emitted once, as it is in the
\* current set, with an empty Previous.
C4_NewEmittedUnchanged ==
    /\ ReturnsUpdated
    /\ \A n \in DOMAIN cm :
          (Visited(n) /\ ~InIgnoreList(n) /\ ~InPrevious(n))
          => /\ Cardinality(EmittedAt(n)) = 1
             /\ \A i \in EmittedAt(n) :
                   /\ updated[i] = cm[n]
                   /\ updated[i].Previous = <<>>
                   /\ \E k \in DOMAIN deps : deps[k] = updated[i]

\* a new dependency is in the result getUpdatedDeps returned
C4_Witness ==
    /\ pc = "done"
    /\ ret.err = ""
    /\ \E i \in DOMAIN ret.deps :
          /\ ~InPrevious(ret.deps[i].Name)
          /\ previous # <<>>

\* C5: a dependency whose Name is in the ignore list is never emitted and no
\* call (cache lookup or remote query) is made for it, whatever the sets and
\* the cache hold.
C5_IgnoredNeverEmitted ==
    \A k \in DOMAIN ignored :
        /\ EmittedAt(ignored[k]) = {}
        /\ CallsOf(ignored[k]) = {}
        /\ \A i \in DOMAIN ret.deps : ret.deps[i].Name # ignored[k]

\* an ignored dependency whose Ref changed, with nothing resolved, has been
\* ranged over
C5_Witness ==
    /\ pc = "done"
    /\ ret.err = ""
    /\ \E n \in DOMAIN cm :
          /\ InIgnoreList(n)
          /\ InPrevious(n)
          /\ pm[n].Ref # cm[n].Ref
          /\ pm[n].Sha = <<>>

\* the New paths of the rename entries whose Old path is name
RenameNews(name) == {renames[s].New : s \in {t \in DOMAIN renames : renames[t].Old = name}}

\* what renameDependencies has done to the previous slice: a Name that is the
\* Old path of a rename entry has become that entry's New path, every other
\* Name and every other field is as parsed
C6_Renamed ==
    /\ Len(previous) = Len(previous0)
    /\ pc = "rename" => previous = previous0
    /\ \A i \in DOMAIN previous0 :
          /\ previous[i] = [previous0[i] EXCEPT !.Name = previous[i].Name]
          /\ pc # "rename" =>
                IF RenameNews(previous0[i].Name) # {}
                THEN previous[i].Name \in RenameNews(previous0[i].Name)
                ELSE previous[i].Name = previous0[i].Name

\* the current dependency under the New path is looked up in the renamed
\* previous slice: it is not emitted as new, and when it is emitted its
\* Previous is the Ref of a previous entry that now has its Name
C6_ComparedUnderNewName ==
    \A i \in DOMAIN previous0 :
        LET n == previous[i].Name
        IN  (RenameNews(previous0[i].Name) # {} /\ Visited(n) /\ ~InIgnoreList(n))
            => /\ n \in DOMAIN pm
               /\ \E k \in DOMAIN previous : previous[k].Name = n /\ pm[n] = previous[k]
               /\ \A j \in EmittedAt(n) :
                     /\ updated[j].Previous # <<>>
                     /\ updated[j].Previous = pm[n].Ref

\* C6: renames are applied to the previous set only, before the diff: a
\* previous dependency named by the Old path of a rename entry is compared
\* under the New path, so the current dependency of that Name is not emitted
\* as new; the current slice and the Names no rename entry matches stay as
\* they are.
C6_RenameBeforeDiff ==
    /\ [](C6_Renamed /\ C6_ComparedUnderNewName)
    /\ [][deps' = deps /\ (pc # "rename" => previous' = previous)]_vars

\* a previous dependency has been renamed, and the current dependency of its
\* new Name has been emitted as an update of it
C6_Witness ==
    /\ pc = "done"
    /\ ret.err = ""
    /\ \E i \in DOMAIN previous0 :
          /\ previous[i].Name # previous0[i].Name
          /\ \E j \in DOMAIN ret.deps :
                /\ ret.deps[j].Name = previous[i].Name
                /\ ret.deps[j].Previous = previous0[i].Ref

\* a go-import meta tag naming a git repository: three fields, the second "git"
UsableTag(t) ==
    /\ t.name = GoImportStr
    /\ Len(Fields(t.content)) = 3
    /\ Fields(t.content)[2] = GitStr

\* the HTTP lookup fails: request error, status >= 400, or no usable tag
\* (absent, malformed, or of another transport)
HTTPFailed(resp) ==
    \/ resp.err
    \/ resp.status >= 400
    \/ \A i \in DOMAIN resp.tags : ~UsableTag(resp.tags[i])

\* the resolveGitURL calls whose HTTP lookup was made and failed
FailedURLCalls ==
    {i \in DOMAIN calls :
        calls[i].fn = "resolveGitURL" /\ calls[i].queried /\ HTTPFailed(calls[i].remote)}

\* C7 (as claimed): a failed clone-URL lookup yields an empty GitURL with a
\* nil error, and getUpdatedDeps goes on and returns a result, not an error.
C7_URLFailureNotFatal ==
    \A i \in FailedURLCalls :
        /\ calls[i].val = <<>>
        /\ ~calls[i].err
        /\ pc = "done" => ret.err = ""

\* C7 (amended): a failed clone-URL lookup is fatal for the diff:
\* resolveGitURL returns an empty GitURL with a non-nil error and caches
\* nothing, and getUpdatedDeps makes no further call and returns the error
\* and no dependencies.
C7_URLFailureFatal ==
    \A i \in FailedURLCalls :
        /\ calls[i].val = <<>>
        /\ calls[i].err
        /\ ~calls[i].put
        /\ i = Len(calls)
        /\ pc = "done"
        /\ ret = [deps |-> <<>>, err |-> "git url"]

\* a clone-URL lookup has failed while a dependency had already been emitted
\* and another was still to be ranged over
C7_Witness ==
    /\ FailedURLCalls # {}
    /\ \E i \in FailedURLCalls : calls[i].remote.status = 200 /\ calls[i].remote.tags # <<>>
    /\ updated # <<>>

\* the lines of an ls-remote output that have exactly two fields
UsableLines(lines) == {l \in DOMAIN lines : Len(Fields(lines[l])) = 2}

\* C8 (as claimed): a failed remote ref query makes getSha return an empty
\* Sha and a nil error and write nothing to the cache, so it does not make
\* getUpdatedDeps return an error; getSha returns an error only when the
\* query succeeded and its output has no line of exactly two fields.
C8_RemoteFailureNotFatal ==
    /\ \A i \in DOMAIN calls :
          calls[i].fn = "getSha" =>
            /\ (calls[i].queried /\ calls[i].remote.err)
               => calls[i].val = <<>> /\ ~calls[i].err /\ ~calls[i].put
            /\ calls[i].err
               => /\ calls[i].queried
                  /\ ~calls[i].remote.err
                  /\ UsableLines(calls[i].remote.lines) = {}
            /\ (calls[i].err /\ pc = "done") => ret.err = "failed to get sha"
    /\ ret.err = "failed to get sha"
       => /\ calls # <<>>
          /\ calls[Len(calls)].fn = "getSha"
          /\ calls[Len(calls)].err

\* C8 (amended): a failed remote ref query makes getSha return an empty Sha
\* and a nil error and write nothing to the cache, so it does not make
\* getUpdatedDeps return an error; getSha returns an error exactly when the
\* query succeeded and either the scan of its output stops at a line longer
\* than the scanner's buffer or the output has no line of exactly two fields;
\* it then returns an empty Sha and writes nothing to the cache.
C8_FatalOnlyAfterAnsweredQuery ==
    /\ \A i \in DOMAIN calls :
          calls[i].fn = "getSha" =>
            /\ (calls[i].queried /\ calls[i].remote.err)
               => calls[i].val = <<>> /\ ~calls[i].err /\ ~calls[i].put
            /\ calls[i].err
               <=> /\ calls[i].queried
                   /\ ~calls[i].remote.err
                   /\ \/ calls[i].remote.tooLong
                      \/ UsableLines(calls[i].remote.lines) = {}
            /\ calls[i].err => calls[i].val = <<>> /\ ~calls[i].put
            /\ (calls[i].err /\ pc \in {"done", "sorted"}) => ret.err = "failed to get sha"
    /\ ret.err = "failed to get sha"
       => /\ calls # <<>>
          /\ calls[Len(calls)].fn = "getSha"
          /\ calls[Len(calls)].err

\* the remote ref query of the previous entry has failed, and getUpdatedDeps
\* has gone on, resolved the current entry and returned the dependency as
\* updated
C8_Witness ==
    /\ pc = "done"
    /\ ret.err = ""
    /\ ret.deps # <<>>
    /\ \E i \in DOMAIN calls :
          /\ calls[i].fn = "getSha" /\ calls[i].queried /\ calls[i].remote.err
          /\ i < Len(calls)
          /\ \E j \in DOMAIN ret.deps :
                ret.deps[j].Name = calls[i].dep /\ ret.deps[j].Sha # <<>>

\* the remote query of call i gave a usable answer
Answered(i) ==
    IF calls[i].fn = "getSha"
    THEN /\ ~calls[i].remote.err
         /\ ~calls[i].remote.tooLong
         /\ UsableLines(calls[i].remote.lines) # {}
    ELSE ~HTTPFailed(calls[i].remote)

\* calls i and j are the first two calls with their cache key
FirstTwoOfKey(i, j) ==
    /\ i < j
    /\ calls[i].fn = calls[j].fn
    /\ calls[i].key = calls[j].key
    /\ \A k \in 1..(j - 1) : k # i => calls[k].key # calls[i].key

\* C9 (as claimed): of two calls with the same key, the first of which finds
\* nothing in the cache, a retaining cache lets exactly one issue a remote
\* query, the second being answered from the cache with the same value; the
\* no-op cache lets each issue one.
C9_OneQueryPerKey ==
    \A i, j \in DOMAIN calls :
        (FirstTwoOfKey(i, j) /\ calls[i].queried)
        => IF cache.kind = "dir"
           THEN ~calls[j].queried /\ calls[j].val = calls[i].val
           ELSE calls[j].queried

\* C9 (amended): of two calls with the same key on a retaining cache, when
\* the first finds nothing in the cache and its remote query gives a usable
\* answer, that query is the only one: the second call is answered from the
\* cache with the same value; when the first query fails, gives no usable
\* answer or cannot be scanned to its end, nothing is cached and the second
\* call queries again; when the key is in the cache beforehand neither
\* queries.  On the no-op cache each call issues one query.
C9_OneQueryPerAnsweredKey ==
    \A i, j \in DOMAIN calls :
        FirstTwoOfKey(i, j)
        => IF cache.kind = "dir"
           THEN IF ~calls[i].queried
                THEN ~calls[j].queried /\ calls[j].val = calls[i].val
                ELSE IF Answered(i)
                     THEN /\ calls[i].put
                          /\ ~calls[j].queried
                          /\ ~calls[j].err
                          /\ calls[j].val = calls[i].val
                     ELSE ~calls[i].put /\ calls[j].queried
           ELSE calls[i].queried /\ calls[j].queried

\* two getSha calls with the same key on a retaining cache, the first
\* answered by the remote, the second from the cache although its own query
\* would have failed
C9_Witness ==
    /\ pc = "calls"
    /\ cache.kind = "dir"
    /\ \E i, j \in DOMAIN calls :
          /\ FirstTwoOfKey(i, j)
          /\ calls[i].fn = "getSha"
          /\ calls[i].queried /\ Answered(i)
          /\ calls[j].remote.err
          /\ calls[j].val # <<>>

----------------------------------------------------------------------------
(* C10 *)

ProbeOrder == <<vendorConf, modulesTxt, goMod>>
Probed == SelectSeq(calls, LAMBDA c : c.fn = "fileFromRev")
Parsed == SelectSeq(calls, LAMBDA c : c.fn = "parse")
Readable == {i \in DOMAIN ProbeOrder : manifests[ProbeOrder[i]].found}
FirstReadable == CHOOSE i \in Readable : \A j \in Readable : i <= j
ParserResults(file) ==
    IF file = vendorConf
    THEN {parseVendorConfDependencies(manifests[file].content, manifests[file].tooLong)}
    ELSE IF file = modulesTxt THEN {parseModulesTxtDependencies(manifests[file].content)}
    ELSE parseGoModDependencies(manifests[file].content)

\* C10: parseGoDependencies looks for vendor.conf, then vendor/modules.txt,
\* then go.mod at the revision, stops at the first one it can read and returns
\* what that file's parser returns, a parse error included: no later file is
\* looked for after a readable one.  When none of the three can be read it
\* returns an error and no dependencies.
C10_FirstReadableManifest ==
    pc = "probed"
    => /\ \A i \in DOMAIN Probed : Probed[i].file = ProbeOrder[i]
       /\ IF Readable = {}
          THEN /\ Len(Probed) = Len(ProbeOrder)
               /\ Parsed = <<>>
               /\ ret.err # ""
               /\ ret.deps = <<>>
          ELSE /\ Len(Probed) = FirstReadable
               /\ Len(Parsed) = 1
               /\ Parsed[1].file = ProbeOrder[FirstReadable]
               /\ ret \in ParserResults(ProbeOrder[FirstReadable])

\* vendor.conf is readable but does not parse while vendor/modules.txt is
\* readable and parses to a dependency: the call returns the vendor.conf
\* error and has not looked for vendor/modules.txt
C10_Witness ==
    /\ pc = "probed"
    /\ manifests[vendorConf].found
    /\ parseVendorConfDependencies(manifests[vendorConf].content,
                                    manifests[vendorConf].tooLong).err # ""
    /\ manifests[modulesTxt].found
    /\ parseModulesTxtDependencies(manifests[modulesTxt].content).err = ""
    /\ parseModulesTxtDependencies(manifests[modulesTxt].content).deps # <<>>
    /\ ret.err # ""
    /\ Len(Probed) = 1

----------------------------------------------------------------------------
(* C11 *)

\* s without the first "+incompatible" and everything after it
WithoutIncompatible(s) ==
    IF Index(s, IncompatibleStr) >= 0 THEN SubSeq(s, 1, Index(s, IncompatibleStr)) ELSE s

\* C11: getCommitOrVersion returns the token itself and isCommit = false for a
\* token of 1 or 2 dash-separated fields, the third field and isCommit = true
\* for a token of exactly 3 fields, and the empty string for a token of more
\* than 3 fields; in every accepted case a "+incompatible" suffix, with
\* everything after it, is removed from the returned string.
C11_ClassifiedAndStripped ==
    pc = "versioned"
    => LET n == Len(DashFields(input))
           r == results[1]
       IN  /\ n \in {1, 2} => ~r.isSha /\ r.cov = WithoutIncompatible(input)
           /\ n = 3 => r.isSha /\ r.cov = WithoutIncompatible(DashFields(input)[3])
           /\ n > 3 => r.cov = <<>>

----------------------------------------------------------------------------
(* C12 *)

ParsedFile(file) == pc \in {"parsed", "reparsed"} /\ input.file = file
MarkerFields(i) == Fields(TrimSpace(input.content[i]))
PlainEntry(i) == Len(MarkerFields(i)) = 3 /\ MarkerFields(i)[1] = MarkerStr
ReplaceEntry(i) ==
    Len(MarkerFields(i)) = 6 /\ MarkerFields(i)[1] = MarkerStr /\ MarkerFields(i)[4] = ArrowStr
\* the content is this one line and the parse returned without error
OneLineParsed == ParsedFile(modulesTxt) /\ Len(input.content) = 1 /\ results[1].err = ""

\* C12: in parseModulesTxtDependencies a six-field replace entry
\* "# oldModule oldVersion => newModule newVersion" yields one dependency whose
\* Name is newModule and whose Ref is the normalized new version; a
\* three-field entry "# module version" yields one dependency with Name =
\* module and Ref = the normalized version.
C12_ReplaceNamedByNewModule ==
    OneLineParsed
    => /\ ReplaceEntry(1)
          => /\ Len(results[1].deps) = 1
             /\ results[1].deps[1].Name = MarkerFields(1)[5]
             /\ results[1].deps[1].Ref = getCommitOrVersion(MarkerFields(1)[6]).cov
       /\ PlainEntry(1)
          => /\ Len(results[1].deps) = 1
             /\ results[1].deps[1].Name = MarkerFields(1)[2]
             /\ results[1].deps[1].Ref = getCommitOrVersion(MarkerFields(1)[3]).cov

----------------------------------------------------------------------------
(* C13 *)

\* C13: for each of the three manifest formats, parsing the same content
\* twice yields identical results: the same dependency records in the same
\* order (and the same error).
C13_ParseTwiceSameSequence ==
    pc = "reparsed" => results[1] = results[2]

----------------------------------------------------------------------------
(* C14 *)

\* empty, or at most 12 hexadecimal characters
ShortHex(sha) == Len(sha) <= ShaLen /\ \A i \in DOMAIN sha : sha[i] \in HexDigits

\* C14: every dependency record produced by one of the three manifest parsers,
\* and every record getUpdatedDeps has emitted, has a Sha that is empty or a
\* string of at most 12 hexadecimal characters.
C14_ShaIsShortHex ==
    /\ pc \in {"parsed", "reparsed"}
       => \A i \in DOMAIN results :
            \A j \in DOMAIN results[i].deps : ShortHex(results[i].deps[j].Sha)
    /\ \A i \in DOMAIN updated : ShortHex(updated[i].Sha)

----------------------------------------------------------------------------
(* C15 *)

MarkerLine(i) == Len(MarkerFields(i)) > 0 /\ MarkerFields(i)[1] = MarkerStr
\* a five-field marker line with "=>" as its field number arrow
FiveFieldEntry(i, arrow) ==
    MarkerLine(i) /\ Len(MarkerFields(i)) = 5 /\ MarkerFields(i)[arrow] = ArrowStr
\* a plain or replace entry whose version getCommitOrVersion rejects
RejectedVersion(i) ==
    \/ PlainEntry(i) /\ getCommitOrVersion(MarkerFields(i)[3]).cov = <<>>
    \/ ReplaceEntry(i) /\ getCommitOrVersion(MarkerFields(i)[6]).cov = <<>>
\* a marker line of none of the three shapes, the skipped one having its "=>"
\* as field number arrow
Shapeless(i, arrow) ==
    MarkerLine(i) /\ ~PlainEntry(i) /\ ~ReplaceEntry(i) /\ ~FiveFieldEntry(i, arrow)
\* the lines up to i are blank, not marker lines, or well-formed entries
CleanUpTo(i, arrow) ==
    \A j \in 1..i : ~Shapeless(j, arrow) /\ ~RejectedVersion(j)
Entries == {i \in DOMAIN input.content : PlainEntry(i) \/ ReplaceEntry(i)}

\* the lockfile-style parser skips the five-field entries with "=>" as field
\* number arrow, keeping what the other entries produce, and fails on the
\* first marker line of no shape with an error that quotes the line
SkipsAndFails(arrow) ==
    ParsedFile(modulesTxt)
    => /\ CleanUpTo(Len(input.content), arrow)
          => /\ results[1].err = ""
             /\ Len(results[1].deps) = Cardinality(Entries)
             /\ \A i \in DOMAIN input.content :
                   PlainEntry(i)
                   => \E j \in DOMAIN results[1].deps :
                         results[1].deps[j].Name = MarkerFields(i)[2]
       /\ \A i \in DOMAIN input.content :
             Shapeless(i, arrow) /\ CleanUpTo(i - 1, arrow)
             => /\ results[1].err = "unknown file format"
                /\ results[1].deps = <<>>
                /\ results[1].at = TrimSpace(input.content[i])

\* C15: the five-field entry that is skipped is the one without a
\* new version, "# module version => newModule" ("=>" as fourth field): it
\* causes no error and removes nothing; every marker line that is neither
\* plain, nor that one, nor a six-field replace entry fails the parse with a
\* format error that includes the line.
C15_SkipsEntryWithoutNewVersion == SkipsAndFails(4)

----------------------------------------------------------------------------
(* C16 *)

Directives(verb) == {i \in DOMAIN input.content : input.content[i].verb = verb}
LocalTarget(i) == HasPrefix(input.content[i].New.Path, LocalPrefix)
\* the replace directives with a non-local target of module path name
Overriding(name) ==
    {i \in Directives("replace") : ~LocalTarget(i) /\ input.content[i].New.Path = name}
\* the last directive of a non-empty set
Last(S) == CHOOSE i \in S : \A j \in S : j <= i
\* the file without its replace directives of a local target
WithoutLocalTargets ==
    SelectSeq(input.content,
              LAMBDA d : ~(d.verb = "replace" /\ HasPrefix(d.New.Path, LocalPrefix)))
\* the version a returned record of this name has to carry
Effective(name) ==
    IF Overriding(name) # {}
    THEN getCommitOrVersion(input.content[Last(Overriding(name))].New.Version)
    ELSE getCommitOrVersion(
             input.content[Last({i \in Directives("require") :
                                    input.content[i].Mod.Path = name})].Mod.Version)

\* C16: parseGoModDependencies returns one dependency per module path of the
\* require entries and no other name; a replace entry of a local target
\* changes nothing in the result and causes no error; a replace entry of a
\* non-local target overrides Ref, Sha and GitURL of the require entry of the
\* same module path when there is one, and is dropped otherwise.
C16_ReplaceOverridesRequire ==
    ParsedFile(goMod)
    => /\ results[1] \in parseGoModDependencies(WithoutLocalTargets)
       /\ results[1].err = ""
          => /\ {results[1].deps[j].Name : j \in DOMAIN results[1].deps}
                = {input.content[i].Mod.Path : i \in Directives("require")}
             /\ Len(results[1].deps)
                = Cardinality({input.content[i].Mod.Path : i \in Directives("require")})
             /\ \A j \in DOMAIN results[1].deps :
                   LET d == results[1].deps[j]
                   IN  /\ d.Ref = Effective(d.Name).cov
                       /\ d.Sha = (IF Effective(d.Name).isSha
                                   THEN Effective(d.Name).cov ELSE <<>>)
                       /\ d.GitURL = getGitURL(d.Name)

----------------------------------------------------------------------------
(* C17 *)

\* the fields of each line of a query output
FieldsOf(lines) == [l \in DOMAIN lines |-> Fields(lines[l])]
\* the two-field lines whose ref is, or is not, peeled
PeeledLines(fs) == {l \in DOMAIN fs : Len(fs[l]) = 2 /\ HasSuffix(fs[l][2], PeelSuffix)}
PlainLines(fs) == {l \in DOMAIN fs : Len(fs[l]) = 2 /\ ~HasSuffix(fs[l][2], PeelSuffix)}
\* the hash of line l, cut to 12 characters
ShortHash(fs, l) ==
    IF Len(fs[l][1]) > ShaLen THEN SubSeq(fs[l][1], 1, ShaLen) ELSE fs[l][1]
\* the getSha calls that ran the query and scanned its output to the end
Scanned == {i \in DOMAIN calls : calls[i].fn = "getSha" /\ calls[i].queried
                                   /\ ~calls[i].remote.err
                                   /\ ~calls[i].remote.tooLong}

\* C17: when the output getSha has scanned to its end has a plain entry and
\* a peeled ("^{}") entry, getSha returns the hash of the peeled entry cut to
\* 12 characters, whichever of the two lines comes first; when it has a plain
\* entry only, getSha returns that entry's hash cut to 12 characters; and the
\* value written to the cache is the value returned.
C17_PeeledPreferred ==
    \A i \in Scanned :
        \A fs \in {FieldsOf(calls[i].remote.lines)} :
            \A peeled \in {PeeledLines(fs)}, plain \in {PlainLines(fs)} :
                /\ \A p \in peeled :
                      peeled = {p} /\ Cardinality(plain) = 1
                      => calls[i].val = ShortHash(fs, p) /\ ~calls[i].err
                /\ \A q \in plain :
                      plain = {q} /\ peeled = {}
                      => calls[i].val = ShortHash(fs, q) /\ ~calls[i].err
                /\ calls[i].put /\ cache.kind = "dir"
                   => CacheGet(cache, calls[i].key) = [ok |-> TRUE, b |-> calls[i].val]

\* a query output whose peeled entry comes before the plain one: getSha has
\* returned the peeled entry's hash, cut, and the cache holds it
C17_Witness ==
    /\ pc = "calls"
    /\ cache.kind = "dir"
    /\ \E i \in Scanned :
          \E fs \in {FieldsOf(calls[i].remote.lines)} :
              /\ 1 \in PeeledLines(fs)
              /\ 2 \in PlainLines(fs)
              /\ ShortHash(fs, 1) # ShortHash(fs, 2)
              /\ calls[i].val = ShortHash(fs, 1)
              /\ Len(calls[i].val) = ShaLen
              /\ calls[i].put
              /\ CacheGet(cache, calls[i].key).b = calls[i].val

----------------------------------------------------------------------------
(* C18 *)

\* the last record of the slice ds that has this Name
LastOf(ds, name) ==
    ds[CHOOSE i \in DOMAIN ds :
          ds[i].Name = name /\ \A j \in DOMAIN ds : j > i => ds[j].Name # name]
InCurrent(name) == \E i \in DOMAIN deps : deps[i].Name = name

\* C18: the slice getUpdatedDeps builds and returns has each Name at most
\* once; every emitted Name is in the current slice and not in the ignore
\* list, so a dependency of the previous slice alone is never emitted; and
\* when a slice has a Name more than once it is the last record of that Name
\* that is compared and emitted.
C18_EmittedOnceFromCurrent ==
    /\ pc # "sorted" => ret.deps \in {<<>>, updated}
    /\ pc = "sorted" =>
          /\ Len(ret.deps) = Len(updated)
          /\ {ret.deps[i] : i \in DOMAIN ret.deps} = {updated[i] : i \in DOMAIN updated}
          /\ \A i, j \in DOMAIN ret.deps :
                i < j => ~Less(ret.deps[j].Name, ret.deps[i].Name)
    /\ \A i \in DOMAIN updated :
          LET u == updated[i]
          IN  /\ \A j \in DOMAIN updated : j # i => updated[j].Name # u.Name
              /\ InCurrent(u.Name)
              /\ ~InIgnoreList(u.Name)
              /\ IF InPrevious(u.Name)
                 THEN /\ u.Ref = LastOf(deps, u.Name).Ref
                      /\ u.Previous = LastOf(previous, u.Name).Ref
                      /\ u.Previous # u.Ref
                 ELSE u = LastOf(deps, u.Name)

\* the previous slice has a Name twice, first with the Ref of the current
\* record and last with another one: the dependency has been emitted, with
\* the Ref of the last previous record as Previous
C18_Witness ==
    /\ pc = "done"
    /\ ret.err = ""
    /\ Len(ret.deps) = 1
    /\ Len(previous) = 2
    /\ previous[1].Name = previous[2].Name
    /\ ret.deps[1].Name = previous[2].Name
    /\ previous[1].Ref = ret.deps[1].Ref
    /\ ret.deps[1].Previous = previous[2].Ref

====
